---- MODULE Spec2Model ----
(***************************************************************************)
(* The TCP echo demo of demos/tcp_demo.cc: tcp_test (the accept loop) and  *)
(* tcp_test::connection (the per-connection handler), as continuations     *)
(* run by a single-threaded reactor.  The transport (tcp::listener,        *)
(* tcp::connection) is the environment: it resolves or fails the futures   *)
(* the demo has outstanding.                                               *)
(***************************************************************************)
EXTENDS Integers, Sequences, FiniteSets, TLC

\* ------------------------------------------------------------------ bounds
\* Connections the peers ever open.
MaxConns == 2
\* Things the peers ever do (send a payload, close their send side), all
\* connections together.
MaxPeerEvents == 2

Conn == 1..MaxConns
\* The non-empty payloads a read can return (two lengths, so that a cut or a
\* padded echo differs from its payload).
Payloads == {<<1>>, <<1, 2>>}
\* The zero-length packet read() returns at the end of the stream.
Empty == <<>>

VARIABLES
    started,        \* engine().when_started() has run tt.run()
    acceptPending,  \* _listener.accept() futures outstanding, continuation attached
    acceptFailed,   \* an accept future has resolved with an exception
    conns,          \* the connection objects made by `new connection(...)`
    handlers,       \* per accepted tcp::connection: the connection objects built on it
    waits,          \* per connection: tcp_conn.wait_for_data() futures outstanding
    inbox,          \* per connection: the packets the next reads will return
    peerClosed,     \* per connection: the peer has closed its send side
    peerEvents,     \* payloads sent and closes done by the peers so far
    peerHist,       \* per connection: the payloads its peer has sent, in order
    trace,          \* per connection: the operations its handler has issued, in order
    pendingSends,   \* per connection: tcp_conn.send() futures not yet resolved
    failedSends,    \* per connection: tcp_conn.send() futures resolved with an exception
    waitFailed      \* per connection: wait_for_data() resolved with an exception

vars == <<started, acceptPending, acceptFailed, conns, handlers, waits, inbox, peerClosed,
          peerEvents, peerHist, trace, pendingSends, failedSends, waitFailed>>

\* ------------------------------------------------------- issued operations
Op(name, buf) == [op |-> name, buf |-> buf]
OpWait == Op("wait_for_data", Empty)
OpRead(p) == Op("read", p)
OpSend(p) == Op("send", p)
OpClose == Op("close_write", Empty)

RECURSIVE Count(_, _)
\* How many operations named `name` the sequence `ops` holds.
Count(ops, name) ==
    IF ops = <<>> THEN 0
    ELSE (IF Head(ops).op = name THEN 1 ELSE 0) + Count(Tail(ops), name)

RECURSIVE Bufs(_, _)
\* The buffers of the operations named `name` in `ops`, in order.
Bufs(ops, name) ==
    IF ops = <<>> THEN <<>>
    ELSE (IF Head(ops).op = name THEN <<Head(ops).buf>> ELSE <<>>)
         \o Bufs(Tail(ops), name)

RECURSIVE NonEmpty(_)
\* The buffers of positive length in a sequence of buffers.
NonEmpty(bs) ==
    IF bs = <<>> THEN <<>>
    ELSE (IF Len(Head(bs)) # 0 THEN <<Head(bs)>> ELSE <<>>) \o NonEmpty(Tail(bs))

\* ------------------------------------------------------------ the handler
\* connection::run(): issue wait_for_data() and attach the continuation.
ConnectionRun == <<OpWait>>

\* Continuation, echoing only the first byte of the packet.
ContinuationTruncating(p) ==
    IF Len(p) = 0
    THEN <<OpRead(p), OpClose>>
    ELSE <<OpRead(p), OpSend(<<Head(p)>>)>> \o ConnectionRun

\* Continuation, returning on a zero-length packet without close_write().
ContinuationNoClose(p) ==
    IF Len(p) = 0
    THEN <<OpRead(p)>>
    ELSE <<OpRead(p), OpSend(p)>> \o ConnectionRun

\* Continuation, without the return after close_write().
ContinuationNoReturn(p) ==
    IF Len(p) = 0
    THEN <<OpRead(p), OpClose>> \o ConnectionRun
    ELSE <<OpRead(p), OpSend(p)>> \o ConnectionRun

\* Continuation, calling run() before send() as well as after it.
ContinuationRunTwice(p) ==
    IF Len(p) = 0
    THEN <<OpRead(p), OpClose>>
    ELSE <<OpRead(p)>> \o ConnectionRun \o <<OpSend(p)>> \o ConnectionRun

\* Continuation, calling run() before send() instead of after it.
ContinuationRunFirst(p) ==
    IF Len(p) = 0
    THEN <<OpRead(p), OpClose>>
    ELSE <<OpRead(p)>> \o ConnectionRun \o <<OpSend(p)>>

\* Continuation, passing the packet to send() twice.
ContinuationSendTwice(p) ==
    IF Len(p) = 0
    THEN <<OpRead(p), OpClose>>
    ELSE <<OpRead(p), OpSend(p), OpSend(p)>> \o ConnectionRun

\* Continuation, calling close_write() after every echo as well.
ContinuationClosingEach(p) ==
    IF Len(p) = 0
    THEN <<OpRead(p), OpClose>>
    ELSE <<OpRead(p), OpSend(p), OpClose>> \o ConnectionRun

\* The continuation of wait_for_data(), given the packet read() returns:
\* a zero-length packet is answered by close_write() and nothing more, any
\* other packet is passed to send() and run() is called again.
Continuation(p) ==
    IF Len(p) = 0
    THEN <<OpRead(p), OpClose>>
    ELSE <<OpRead(p), OpSend(p)>> \o ConnectionRun

\* tcp_conn.read() once wait_for_data() has resolved: the next packet, or the
\* zero-length packet when the peer has closed and nothing is left.
Read(c) == IF inbox[c] # <<>> THEN Head(inbox[c]) ELSE Empty

\* wait_for_data() resolves when data is there or the peer will not send.
DataAvailable(c) == inbox[c] # <<>> \/ peerClosed[c]

Init ==
    /\ started = FALSE
    /\ acceptPending = 0
    /\ acceptFailed = FALSE
    /\ conns = {}
    /\ handlers = [c \in Conn |-> 0]
    /\ waits = [c \in Conn |-> 0]
    /\ inbox = [c \in Conn |-> <<>>]
    /\ peerClosed = [c \in Conn |-> FALSE]
    /\ peerEvents = 0
    /\ peerHist = [c \in Conn |-> <<>>]
    /\ trace = [c \in Conn |-> <<>>]
    /\ pendingSends = [c \in Conn |-> 0]
    /\ failedSends = [c \in Conn |-> 0]
    /\ waitFailed = [c \in Conn |-> FALSE]

\* main(): when_started().then([&tt] { tt.run(); }), and tcp_test::run()
\* issues the first accept().
Started ==
    /\ ~started
    /\ started' = TRUE
    /\ acceptPending' = acceptPending + 1
    /\ UNCHANGED <<acceptFailed, conns, handlers, waits, inbox, peerClosed, peerEvents, peerHist, trace,
                   pendingSends, failedSends, waitFailed>>

\* Accepted, calling run() again only when no earlier handler is still waiting.
AcceptedAwaitingHandlers ==
    /\ acceptPending > 0
    /\ Cardinality(conns) < MaxConns
    /\ LET c == Cardinality(conns) + 1 IN
        /\ conns' = conns \cup {c}
        /\ handlers' = [handlers EXCEPT ![c] = @ + 1]
        /\ trace' = [trace EXCEPT ![c] = @ \o ConnectionRun]
        /\ waits' = [waits EXCEPT ![c] = @ + Count(ConnectionRun, "wait_for_data")]
    /\ acceptPending' = (acceptPending - 1)
                        + (IF \A a \in conns : waits[a] = 0 THEN 1 ELSE 0)
    /\ UNCHANGED <<started, acceptFailed, inbox, peerClosed, peerEvents, peerHist,
                   pendingSends, failedSends, waitFailed>>

\* Accepted, calling run() twice after starting the handler.
AcceptedRearmingTwice ==
    /\ acceptPending > 0
    /\ Cardinality(conns) < MaxConns
    /\ LET c == Cardinality(conns) + 1 IN
        /\ conns' = conns \cup {c}
        /\ handlers' = [handlers EXCEPT ![c] = @ + 1]
        /\ trace' = [trace EXCEPT ![c] = @ \o ConnectionRun]
        /\ waits' = [waits EXCEPT ![c] = @ + Count(ConnectionRun, "wait_for_data")]
    /\ acceptPending' = (acceptPending - 1) + 2
    /\ UNCHANGED <<started, acceptFailed, inbox, peerClosed, peerEvents, peerHist,
                   pendingSends, failedSends, waitFailed>>

\* Accepted, building the new connection object on the first tcp::connection
\* again.
AcceptedRebinding ==
    /\ acceptPending > 0
    /\ Cardinality(conns) < MaxConns
    /\ LET c == 1 IN
        /\ conns' = conns \cup {c}
        /\ handlers' = [handlers EXCEPT ![c] = @ + 1]
        /\ trace' = [trace EXCEPT ![c] = @ \o ConnectionRun]
        /\ waits' = [waits EXCEPT ![c] = @ + Count(ConnectionRun, "wait_for_data")]
    /\ acceptPending' = (acceptPending - 1) + 1
    /\ UNCHANGED <<started, acceptFailed, inbox, peerClosed, peerEvents, peerHist,
                   pendingSends, failedSends, waitFailed>>

\* The continuation of accept(): new connection, its run(), then run() again.
Accepted ==
    /\ acceptPending > 0
    /\ Cardinality(conns) < MaxConns
    /\ LET c == Cardinality(conns) + 1 IN
        /\ conns' = conns \cup {c}
        /\ handlers' = [handlers EXCEPT ![c] = @ + 1]
        /\ trace' = [trace EXCEPT ![c] = @ \o ConnectionRun]
        /\ waits' = [waits EXCEPT ![c] = @ + Count(ConnectionRun, "wait_for_data")]
    /\ acceptPending' = (acceptPending - 1) + 1
    /\ UNCHANGED <<started, acceptFailed, inbox, peerClosed, peerEvents, peerHist,
                   pendingSends, failedSends, waitFailed>>

\* AcceptFailed, with the failed accept() issued again.
AcceptFailedRetried ==
    /\ acceptPending > 0
    /\ acceptPending' = (acceptPending - 1) + 1
    /\ acceptFailed' = TRUE
    /\ UNCHANGED <<started, conns, handlers, waits, inbox, peerClosed, peerEvents, peerHist, trace,
                   pendingSends, failedSends, waitFailed>>

\* accept() resolves with an exception: .then() skips the continuation and the
\* failed future is discarded.
AcceptFailed ==
    /\ acceptPending > 0
    /\ acceptPending' = acceptPending - 1
    /\ acceptFailed' = TRUE
    /\ UNCHANGED <<started, conns, handlers, waits, inbox, peerClosed, peerEvents, peerHist, trace,
                   pendingSends, failedSends, waitFailed>>

\* DataReady, with the continuation held back while another connection has a
\* send() unresolved.
DataReadySerialized(c) ==
    /\ waits[c] > 0
    /\ DataAvailable(c)
    /\ \A a \in Conn \ {c} : pendingSends[a] = 0
    /\ LET ops == Continuation(Read(c)) IN
        /\ trace' = [trace EXCEPT ![c] = @ \o ops]
        /\ waits' = [waits EXCEPT ![c] = (@ - 1) + Count(ops, "wait_for_data")]
        /\ pendingSends' = [pendingSends EXCEPT ![c] = @ + Count(ops, "send")]
    /\ inbox' = [inbox EXCEPT ![c] = IF @ # <<>> THEN Tail(@) ELSE @]
    /\ UNCHANGED <<started, acceptPending, acceptFailed, conns, handlers, peerClosed,
                   peerEvents, peerHist, failedSends, waitFailed>>

\* DataReady, with the continuation held back until every earlier send() of
\* the connection has resolved.
DataReadyAwaitingSend(c) ==
    /\ waits[c] > 0
    /\ DataAvailable(c)
    /\ pendingSends[c] = 0
    /\ LET ops == Continuation(Read(c)) IN
        /\ trace' = [trace EXCEPT ![c] = @ \o ops]
        /\ waits' = [waits EXCEPT ![c] = (@ - 1) + Count(ops, "wait_for_data")]
        /\ pendingSends' = [pendingSends EXCEPT ![c] = @ + Count(ops, "send")]
    /\ inbox' = [inbox EXCEPT ![c] = IF @ # <<>> THEN Tail(@) ELSE @]
    /\ UNCHANGED <<started, acceptPending, acceptFailed, conns, handlers, peerClosed,
                   peerEvents, peerHist, failedSends, waitFailed>>

\* DataReady, with wait_for_data() given up when nothing has arrived.
DataReadyTimingOut(c) ==
    /\ waits[c] > 0
    /\ LET ops == Continuation(Read(c)) IN
        /\ trace' = [trace EXCEPT ![c] = @ \o ops]
        /\ waits' = [waits EXCEPT ![c] = (@ - 1) + Count(ops, "wait_for_data")]
        /\ pendingSends' = [pendingSends EXCEPT ![c] = @ + Count(ops, "send")]
    /\ inbox' = [inbox EXCEPT ![c] = IF @ # <<>> THEN Tail(@) ELSE @]
    /\ UNCHANGED <<started, acceptPending, acceptFailed, conns, handlers, peerClosed,
                   peerEvents, peerHist, failedSends, waitFailed>>

\* wait_for_data() resolves and its continuation runs to its end.
DataReady(c) ==
    /\ waits[c] > 0
    /\ DataAvailable(c)
    /\ LET ops == Continuation(Read(c)) IN
        /\ trace' = [trace EXCEPT ![c] = @ \o ops]
        /\ waits' = [waits EXCEPT ![c] = (@ - 1) + Count(ops, "wait_for_data")]
        /\ pendingSends' = [pendingSends EXCEPT ![c] = @ + Count(ops, "send")]
    /\ inbox' = [inbox EXCEPT ![c] = IF @ # <<>> THEN Tail(@) ELSE @]
    /\ UNCHANGED <<started, acceptPending, acceptFailed, conns, handlers, peerClosed,
                   peerEvents, peerHist, failedSends, waitFailed>>

\* WaitForDataFailed, with the exception reaching the accept loop.
WaitForDataFailedPropagating(c) ==
    /\ waits[c] > 0
    /\ waits' = [waits EXCEPT ![c] = @ - 1]
    /\ waitFailed' = [waitFailed EXCEPT ![c] = TRUE]
    /\ acceptPending' = 0
    /\ UNCHANGED <<started, acceptFailed, conns, handlers, inbox, peerClosed,
                   peerEvents, peerHist, trace, pendingSends, failedSends>>

\* wait_for_data() resolves with an exception: .then() skips the continuation
\* and the failed future is discarded.
WaitForDataFailed(c) ==
    /\ waits[c] > 0
    /\ waits' = [waits EXCEPT ![c] = @ - 1]
    /\ waitFailed' = [waitFailed EXCEPT ![c] = TRUE]
    /\ UNCHANGED <<started, acceptPending, acceptFailed, conns, handlers, inbox, peerClosed,
                   peerEvents, peerHist, trace, pendingSends, failedSends>>

\* A send() future resolves; the handler has discarded it.
SendCompleted(c) ==
    /\ pendingSends[c] > 0
    /\ pendingSends' = [pendingSends EXCEPT ![c] = @ - 1]
    /\ UNCHANGED <<started, acceptPending, acceptFailed, conns, handlers, waits, inbox,
                   peerClosed, peerEvents, peerHist, trace, failedSends, waitFailed>>

\* A send() future resolves with an exception; the handler has discarded it.
SendFailed(c) ==
    /\ pendingSends[c] > 0
    /\ pendingSends' = [pendingSends EXCEPT ![c] = @ - 1]
    /\ failedSends' = [failedSends EXCEPT ![c] = @ + 1]
    /\ UNCHANGED <<started, acceptPending, acceptFailed, conns, handlers, waits, inbox,
                   peerClosed, peerEvents, peerHist, trace, waitFailed>>

\* The peer of an accepted connection sends a payload.
PeerSend(c, p) ==
    /\ c \in conns
    /\ ~peerClosed[c]
    /\ peerEvents < MaxPeerEvents
    /\ peerEvents' = peerEvents + 1
    /\ peerHist' = [peerHist EXCEPT ![c] = Append(@, p)]
    /\ inbox' = [inbox EXCEPT ![c] = Append(@, p)]
    /\ UNCHANGED <<started, acceptPending, acceptFailed, conns, handlers, waits, peerClosed,
                   trace, pendingSends, failedSends, waitFailed>>

\* The peer of an accepted connection closes its send side.
PeerClose(c) ==
    /\ c \in conns
    /\ ~peerClosed[c]
    /\ peerEvents < MaxPeerEvents
    /\ peerEvents' = peerEvents + 1
    /\ peerClosed' = [peerClosed EXCEPT ![c] = TRUE]
    /\ UNCHANGED <<started, acceptPending, acceptFailed, conns, handlers, waits, inbox,
                   peerHist, trace, pendingSends, failedSends, waitFailed>>

Next ==
    \/ Started
    \/ Accepted
    \/ AcceptFailed
    \/ \E c \in Conn : DataReady(c)
    \/ \E c \in Conn : WaitForDataFailed(c)
    \/ \E c \in Conn : SendCompleted(c)
    \/ \E c \in Conn : SendFailed(c)
    \/ \E c \in Conn, p \in Payloads : PeerSend(c, p)
    \/ \E c \in Conn : PeerClose(c)

Spec == Init /\ [][Next]_vars

\* The reactor runs every ready continuation: a resolved wait_for_data() does
\* not stay unserved.
FairSpec == Spec /\ \A c \in Conn : WF_vars(DataReady(c))


\* ------------------------------------------------------------- properties
Sends(c) == Bufs(trace[c], "send")
Reads(c) == Bufs(trace[c], "read")
CloseIssued(c) == Count(trace[c], "close_write") > 0
TransportFailure(c) == waitFailed[c] \/ failedSends[c] > 0
IsPrefix(s, t) == Len(s) <= Len(t) /\ s = SubSeq(t, 1, Len(s))

\* Everything that belongs to one connection.
ConnState(c) ==
    <<c \in conns, handlers[c], waits[c], inbox[c], peerClosed[c], peerHist[c], trace[c],
      pendingSends[c], failedSends[c], waitFailed[c]>>

\* C1. Echo fidelity: on every connection the payloads passed to send() are
\* exactly the non-empty packets read() has returned on it, in order, each
\* once and unchanged.
EchoFidelity == \A c \in Conn : Sends(c) = NonEmpty(Reads(c))

\* C1 witness: the same two-byte payload read twice and echoed twice.
EchoFidelityWitness ==
    \E c \in Conn : Reads(c) = <<<<1, 2>>, <<1, 2>>>> /\ Sends(c) = <<<<1, 2>>, <<1, 2>>>>

\* C2. Termination on stream end: on an accepted connection whose peer has
\* closed its send side, close_write() is eventually issued, unless a
\* transport failure occurs on that connection.
CloseOnStreamEnd ==
    \A c \in Conn :
        (c \in conns /\ peerClosed[c]) ~> (CloseIssued(c) \/ TransportFailure(c))

\* C2 witness: a peer that sent, then closed, and was answered by close_write()
\* with no failure on the connection.
CloseOnStreamEndWitness ==
    \E c \in Conn :
        /\ peerClosed[c] /\ peerHist[c] # <<>>
        /\ CloseIssued(c) /\ ~TransportFailure(c)

\* C3. No activity after close: once close_write() has been issued on a
\* connection its handler issues nothing more on it and has no wait_for_data()
\* outstanding.
NoActivityAfterClose ==
    [][\A c \in Conn :
          CloseIssued(c) => (trace'[c] = trace[c] /\ waits[c] = 0 /\ waits'[c] = 0)]_vars

\* C3 witness: a closed connection, after an echo, with its send() unresolved.
NoActivityAfterCloseWitness ==
    \E c \in Conn : CloseIssued(c) /\ Sends(c) # <<>> /\ pendingSends[c] > 0

\* C4. Independence: a handler with data or a stream end pending can run
\* whatever the other connections are doing, its echoes are payloads of its
\* own peer, and no step changes the state of two connections.
Independence ==
    /\ [](\A b \in Conn :
            /\ (waits[b] > 0 /\ DataAvailable(b)) => ENABLED DataReady(b)
            /\ IsPrefix(Sends(b), peerHist[b]))
    /\ [][\A a, b \in Conn :
            a # b => (ConnState(a)' = ConnState(a) \/ ConnState(b)' = ConnState(b))]_vars

\* C4 witness: one connection with an echo unresolved while another has a
\* different payload waiting to be read.
IndependenceWitness ==
    \E a, b \in Conn :
        /\ a # b
        /\ pendingSends[a] > 0
        /\ waits[b] > 0 /\ inbox[b] # <<>>
        /\ Sends(a) # <<Head(inbox[b])>>

\* C5. Unbounded acceptance: as long as no accept has failed, one accept() is
\* outstanding after start, however many handlers are live, and the next
\* connection can be accepted.
UnboundedAcceptance ==
    (started /\ ~acceptFailed) =>
        /\ acceptPending = 1
        /\ Cardinality(conns) < MaxConns => ENABLED Accepted

\* C5 witness: two connections accepted, both handlers still waiting and not
\* closed, and an accept() outstanding.
UnboundedAcceptanceWitness ==
    /\ acceptPending = 1
    /\ \E a, b \in conns :
        /\ a # b
        /\ waits[a] = 1 /\ ~CloseIssued(a)
        /\ waits[b] = 1 /\ ~CloseIssued(b)

\* C6. At most one read outstanding: no connection ever has two
\* wait_for_data() futures unresolved.
OneReadOutstanding == \A c \in Conn : waits[c] <= 1

\* C6 witness: a handler waiting again after an echo.
OneReadOutstandingWitness ==
    \E c \in Conn : waits[c] = 1 /\ Count(trace[c], "wait_for_data") = 2

\* C7. At most one write outstanding: no connection ever has two send()
\* futures unresolved.
OneWriteOutstanding == \A c \in Conn : pendingSends[c] <= 1

\* C8. A failed read or write ends the handler: after wait_for_data() or a
\* send() has failed on a connection, its handler issues no further
\* wait_for_data(), read() or send() on it.
FailureEndsHandler ==
    [][\A c \in Conn :
          TransportFailure(c) =>
              /\ Count(trace'[c], "wait_for_data") = Count(trace[c], "wait_for_data")
              /\ Count(trace'[c], "read") = Count(trace[c], "read")
              /\ Count(trace'[c], "send") = Count(trace[c], "send")]_vars

\* C9. Failure isolation: a step in which wait_for_data() or a send() fails on
\* one connection leaves the accept loop and every other connection as they
\* were, and a failed connection does not keep another handler from running.
FailureIsolation ==
    /\ [][\A a \in Conn :
            (waitFailed'[a] # waitFailed[a] \/ failedSends'[a] # failedSends[a]) =>
                /\ UNCHANGED <<started, acceptPending, acceptFailed, conns, handlers>>
                /\ \A b \in Conn \ {a} : ConnState(b)' = ConnState(b)]_vars
    /\ [](\A a, b \in Conn :
            (a # b /\ TransportFailure(a) /\ waits[b] > 0 /\ DataAvailable(b))
                => ENABLED DataReady(b))

\* C9 witness: one connection failed, another echoed and closed, the accept
\* still outstanding.
FailureIsolationWitness ==
    \E a, b \in Conn :
        /\ a # b
        /\ waitFailed[a]
        /\ Sends(b) # <<>> /\ CloseIssued(b) /\ ~TransportFailure(b)
        /\ acceptPending = 1

\* C10. A failed accept ends the accept loop: in the step in which an accept
\* fails and in every later step no handler is created and no accept() is
\* outstanding.
AcceptFailureEndsLoop ==
    [][acceptFailed' => (conns' = conns /\ acceptPending' = 0)]_vars

\* C10 witness: the accept has failed while a connection accepted before it
\* goes on echoing.
AcceptFailureEndsLoopWitness ==
    /\ acceptFailed
    /\ acceptPending = 0
    /\ \E c \in conns : Sends(c) # <<>> /\ waits[c] = 1

\* C11. Release after Closing: a connection object whose handler has issued
\* close_write() is eventually no longer among the allocated ones.
ReleaseAfterClosing ==
    \A c \in Conn : CloseIssued(c) ~> (c \notin conns)

\* The operations that may directly follow one another on a connection.
Follows(a, b) ==
    \/ a = "wait_for_data" /\ b = "read"
    \/ a = "read" /\ b \in {"send", "close_write"}
    \/ a = "send" /\ b = "wait_for_data"

\* C12. Per-connection program order: the operations of a connection start
\* with wait_for_data() and follow the cycle wait, read, send, wait; at every
\* point the k-th send() comes after the k-th read(), the k-th read() after the
\* k-th wait_for_data(), and the (k+1)-th wait_for_data() after the k-th send().
ProgramOrder ==
    \A c \in Conn :
        LET t == trace[c] IN
        /\ t # <<>> => t[1].op = "wait_for_data"
        /\ \A i \in 1..(Len(t) - 1) : Follows(t[i].op, t[i + 1].op)
        /\ \A i \in 1..Len(t) :
            LET pre == SubSeq(t, 1, i) IN
            /\ Count(pre, "send") <= Count(pre, "read")
            /\ Count(pre, "read") <= Count(pre, "wait_for_data")
            /\ Count(pre, "wait_for_data") <= Count(pre, "send") + 1

\* C12 witness: two full cycles on one connection and a third wait outstanding.
ProgramOrderWitness ==
    \E c \in Conn : Count(trace[c], "send") = 2 /\ Count(trace[c], "wait_for_data") = 3

\* C13. Accept step: a step that makes a connection object makes exactly one,
\* starts its handler (one wait_for_data() outstanding, nothing else issued),
\* leaves the older connections as they were and has one accept() outstanding
\* before and after; never more than one accept() is outstanding.
AcceptStep ==
    /\ [](acceptPending <= 1)
    /\ [][conns' # conns =>
            \E c \in Conn \ conns :
                /\ conns' = conns \cup {c}
                /\ trace[c] = <<>> /\ trace'[c] = <<OpWait>>
                /\ waits[c] = 0 /\ waits'[c] = 1
                /\ acceptPending = 1 /\ acceptPending' = 1
                /\ \A a \in conns : ConnState(a)' = ConnState(a)]_vars

\* C13 witness: the second connection just accepted while the first handler
\* has echoed and is still waiting, and the accept() is outstanding again.
AcceptStepWitness ==
    /\ acceptPending = 1
    /\ conns = {1, 2}
    /\ Sends(1) # <<>> /\ waits[1] = 1
    /\ trace[2] = <<OpWait>>

\* C14. Fire-and-forget write: the step that issues a send() leaves it
\* unresolved and ends with the next wait_for_data() issued, and an unresolved
\* send() never keeps the handler from running on the next packet.
FireAndForgetWrite ==
    /\ [][\A c \in Conn :
            Count(trace'[c], "send") > Count(trace[c], "send") =>
                /\ trace'[c][Len(trace'[c])] = OpWait
                /\ waits'[c] = 1
                /\ pendingSends'[c] = pendingSends[c] + 1]_vars
    /\ [](\A c \in Conn :
            (waits[c] > 0 /\ DataAvailable(c) /\ pendingSends[c] > 0)
                => ENABLED DataReady(c))

\* C14 witness: a handler waiting, the next packet ready to be read, while its
\* earlier send() is still unresolved.
FireAndForgetWriteWitness ==
    \E c \in Conn : waits[c] = 1 /\ inbox[c] # <<>> /\ pendingSends[c] = 1

\* C15. Exclusive, single handling: every tcp::connection that was accepted has
\* exactly one connection object and never gets a second one; operations are
\* issued only on connections that have their object, by one handler at a
\* step, and a connection has no more waits outstanding than handlers.
ExclusiveHandling ==
    /\ [](\A c \in Conn :
            /\ handlers[c] <= 1
            /\ c \in conns <=> handlers[c] = 1
            /\ trace[c] # <<>> => handlers[c] = 1
            /\ waits[c] <= handlers[c])
    /\ [][\A c \in Conn :
            /\ handlers[c] = 1 => handlers'[c] = 1
            /\ trace'[c] # trace[c] =>
                /\ handlers'[c] = 1
                /\ \A a \in Conn \ {c} : trace'[a] = trace[a]]_vars

\* C15 witness: two connections, each with its one handler, each having echoed
\* its own payload.
ExclusiveHandlingWitness ==
    /\ handlers[1] = 1 /\ Sends(1) = <<<<1>>>>
    /\ handlers[2] = 1 /\ Sends(2) = <<<<1, 2>>>>

\* C16. Buffer consumed exactly once: every packet read is followed at once by
\* one send() of that packet when it is non-empty and by one close_write()
\* when it is empty, no send() or close_write() is issued without the read
\* before it, and the sends are as many as the non-empty reads.
BufferConsumedOnce ==
    \A c \in Conn :
        LET t == trace[c] IN
        /\ \A i \in 1..Len(t) :
            /\ t[i].op = "read" =>
                /\ i < Len(t)
                /\ Len(t[i].buf) # 0 => t[i + 1] = OpSend(t[i].buf)
                /\ Len(t[i].buf) = 0 => t[i + 1] = OpClose
            /\ t[i].op \in {"send", "close_write"} => (i > 1 /\ t[i - 1].op = "read")
        /\ Count(t, "send") = Len(NonEmpty(Reads(c)))
        /\ Count(t, "close_write") = Len(Reads(c)) - Len(NonEmpty(Reads(c)))

\* C16 witness: a non-empty packet and then the zero-length packet read on one
\* connection.
BufferConsumedOnceWitness ==
    \E c \in Conn : Reads(c) = <<<<1, 2>>, <<>>>>

\* C17. Handler lifetime: a handler has its wait_for_data() outstanding unless
\* its last read was zero-length (and close_write() was issued) or its
\* wait_for_data() failed; and while no data has arrived, the peer has not
\* closed and the wait does not fail, the handler stays as it is.
HandlerLifetime ==
    /\ [](\A c \in conns :
            \/ waits[c] = 1
            \/ waitFailed[c]
            \/ /\ CloseIssued(c)
               /\ Reads(c) # <<>>
               /\ Reads(c)[Len(Reads(c))] = Empty)
    /\ [][\A c \in Conn :
            (waits[c] = 1 /\ ~DataAvailable(c) /\ ~waitFailed'[c]) =>
                (waits'[c] = 1 /\ trace'[c] = trace[c])]_vars

\* C17 witness: a connection whose peer has neither sent nor closed, its
\* handler still on its first wait, while another connection has been closed.
HandlerLifetimeWitness ==
    \E c, d \in conns :
        /\ c # d
        /\ trace[c] = <<OpWait>> /\ waits[c] = 1
        /\ peerHist[c] = <<>> /\ ~peerClosed[c]
        /\ CloseIssued(d)

\* C18. Half-close comes last and once: close_write() is issued at most once
\* on a connection, it is the last operation issued on it, and when it is
\* issued every non-empty packet read before has been passed to send().
HalfCloseLast ==
    \A c \in Conn :
        LET t == trace[c] IN
        /\ Count(t, "close_write") <= 1
        /\ \A i \in 1..Len(t) :
            t[i].op = "close_write" =>
                /\ i = Len(t)
                /\ Bufs(SubSeq(t, 1, i), "send") = NonEmpty(Bufs(SubSeq(t, 1, i), "read"))

\* C18 witness: a connection closed after exactly one echo of a one-byte payload.
HalfCloseLastWitness ==
    \E c \in Conn : CloseIssued(c) /\ Sends(c) = <<<<1>>>>

====
